---- MODULE Spec2Model ----
(***************************************************************************)
(* Model of mmd/postscf.py: the PostSCF object, its determinant space      *)
(* generators (CISD, FCI), the Slater-Condon matrix element and the        *)
(* assembly loop of build_full_hamiltonian.                                *)
(*                                                                         *)
(* Representation.                                                         *)
(*  - A Python int is unbounded.  It is held here as the set of positions  *)
(*    of its one bits (its binary expansion), so 1 << i is {i}, a | b is   *)
(*    a \cup b, a & ~b is a \ b, a ^ b is the symmetric difference and     *)
(*    bin(a).count('1') is Cardinality(a), exactly, at any width.          *)
(*  - A determinant handed to the assembler is np.array([i]): a sequence   *)
(*    of machine words, of length 1.                                       *)
(*  - Matrix elements are kept doubled (unit 1/2), so that the factor 0.5  *)
(*    of the degree-0 rule stays inside the integers.                      *)
(*  - mmd.slater (get_excitation, common_index) is not among the sources; *)
(*    it is modelled from sections 3 and 4.2 of the specification.         *)
(*  - mmd.utils.davidson is not among the sources either; it is modelled  *)
(*    from sections 3 and 4.5.  An eigenvalue of H is named by its rank    *)
(*    in the spectrum of H, 1 for the lowest.                              *)
(***************************************************************************)
EXTENDS Integers, Sequences, FiniteSets

\* ------------------------------------------------------------- bounds
\* spatial basis functions of the small molecules (norb = 2 * nbasis)
MaxBasis == 2
\* method calls made on one PostSCF object
MaxCalls == 1
\* list(set(...)) orders: every permutation up to this length
MaxPermLen == 3
\* determinant lists up to this length have their pairs evaluated in any order
MaxShardLen == 2

\* ---------------------------------------------------- program constants
\* the ceiling on the number of determinants
Ceiling == 5000
\* bits of one machine word of a determinant
WordBits == 64
\* eigenpairs requested from davidson
NumRoots == 3

\* ------------------------------------------------------------ helpers
Max(S) == CHOOSE x \in S : \A y \in S : y <= x

Range(s) == {s[k] : k \in 1..Len(s)}

Reverse(s) == [k \in 1..Len(s) |-> s[Len(s) + 1 - k]]

\* range(n) of Python, as the ascending sequence 0, 1, ..., n-1
range(n) == [k \in 1..n |-> k - 1]

RECURSIVE FlatMapRange(_, _, _)
\* concatenation of F[lo], F[lo+1], ..., F[hi], halving so the depth stays small
FlatMapRange(F, lo, hi) ==
    IF lo > hi THEN << >>
    ELSE IF lo = hi THEN F[lo]
    ELSE LET mid == (lo + hi) \div 2
         IN  FlatMapRange(F, lo, mid) \o FlatMapRange(F, mid + 1, hi)

\* a < b on Python ints held as bit sets: the highest differing bit is in b
IntLess(a, b) == a # b /\ Max((a \ b) \cup (b \ a)) \in b

\* the elements of S in ascending order: the k-th has k - 1 elements below it
SortAsc(S) ==
    [k \in 1..Cardinality(S) |->
       CHOOSE x \in S : Cardinality({y \in S : IntLess(y, x)}) = k - 1]

AllOrders(S) ==
    {p \in [1..Cardinality(S) -> S] : \A i, j \in 1..Cardinality(S) : p[i] = p[j] => i = j}

RECURSIVE Binomial(_, _)
Binomial(n, k) == IF k = 0 THEN 1 ELSE (Binomial(n, k - 1) * (n - k + 1)) \div k

\* scipy.special.comb(n, k), exact on the sizes used here
comb(n, k) ==
    IF k < 0 \/ k > n THEN 0
    ELSE Binomial(n, IF k <= n - k THEN k ELSE n - k)

\* ------------------------------------------------- determinant generators
\* residues keeping every determinant that lost at most two electrons
residues_atmost(nOrb, determinant) ==
    LET nonzero == Cardinality(determinant)
        inner(i) ==
            LET row == [k \in 1..i |->
                          LET j == k - 1
                              mask == ({i} \cup {j}) \ ({i} \cap {j})
                          IN  IF Cardinality(determinant \ mask) >= nonzero - 2
                              THEN <<determinant \ mask>> ELSE << >>]
            IN  FlatMapRange(row, 1, i)
        outer == [k \in 1..nOrb |-> inner(k - 1)]
    IN  FlatMapRange(outer, 1, nOrb)

\* PostSCF.residues: every way to remove two electrons from determinant
residues(nOrb, determinant) ==
    LET nonzero == Cardinality(determinant)
        inner(i) ==
            LET row == [k \in 1..i |->
                          LET j == k - 1
                              mask == ({i} \cup {j}) \ ({i} \cap {j})
                          IN  IF Cardinality(determinant \ mask) = nonzero - 2
                              THEN <<determinant \ mask>> ELSE << >>]
            IN  FlatMapRange(row, 1, i)
        outer == [k \in 1..nOrb |-> inner(k - 1)]
    IN  FlatMapRange(outer, 1, nOrb)

\* PostSCF.add_particles, the list before set(): every way to add two electrons
add_particles_list(nOrb, residue_list) ==
    LET forResidue(determinant) ==
            LET forI(i) ==
                    IF i \notin determinant
                    THEN LET one_particle == determinant \cup {i}
                             row == [k \in 1..i |->
                                       IF (k - 1) \notin one_particle
                                       THEN <<one_particle \cup {k - 1}>> ELSE << >>]
                         IN  FlatMapRange(row, 1, i)
                    ELSE << >>
                outer == [k \in 1..nOrb |-> forI(k - 1)]
            IN  FlatMapRange(outer, 1, nOrb)
        perResidue == [r \in 1..Len(residue_list) |-> forResidue(residue_list[r])]
    IN  FlatMapRange(perResidue, 1, Len(residue_list))

\* the orders in which list(...) may walk a set: the language leaves it open
ListOrders(S) ==
    IF Cardinality(S) <= MaxPermLen THEN AllOrders(S)
    ELSE {SortAsc(S), Reverse(SortAsc(S))}

\* PostSCF.add_particles: set(determinants), the set its result lists
add_particles(nOrb, residue_list) == Range(add_particles_list(nOrb, residue_list))

\* single_and_double_determinants over add_particles returning determinants
\* itself, without set()
single_and_double_determinants_raw(nOrb, determinant) ==
    LET l == add_particles_list(nOrb, residues(nOrb, determinant))
    IN  {[k \in 1..Len(l) |-> <<l[k]>>]}

\* PostSCF.single_and_double_determinants: the lists it can return, each
\* value of list(set(determinants)) wrapped as np.array([i])
single_and_double_determinants(nOrb, determinant) ==
    {[k \in 1..Len(l) |-> <<l[k]>>] :
       l \in ListOrders(add_particles(nOrb, residues(nOrb, determinant)))}

RECURSIVE combinations(_, _, _)
\* itertools.combinations(range(lo, n), k): the k-tuples in lexicographic order
combinations(lo, n, k) ==
    IF k = 0 THEN << << >> >>
    ELSE IF n - lo < k THEN << >>
    ELSE IF n - lo = k THEN \* the one tuple that takes them all
         << [t \in 1..k |-> lo + t - 1] >>
    ELSE LET withFirst(f) ==
                 LET rest == combinations(f + 1, n, k - 1)
                 IN  [t \in 1..Len(rest) |-> <<f>> \o rest[t]]
             row == [f \in lo..(n - k) |-> withFirst(f)]
         IN  FlatMapRange(row, lo, n - k)

\* BitArray(bin=string).uint: the binary numeral, most significant digit first
uint(string) == {Len(string) - k : k \in {x \in 1..Len(string) : string[x] = "1"}}

\* PostSCF.tuple2bitstring; called on a non-empty tuple (max of () raises)
tuple2bitstring(bit_tuple) ==
    LET n == Max(Range(bit_tuple)) + 1
        string == [k \in 1..n |-> IF (k - 1) \in Range(bit_tuple) THEN "1" ELSE "0"]
    IN  Reverse(string)

\* ---------------------------------------------------------- MO integrals
\* the integral sets a molecule may carry: h over spatial MOs a fixed
\* symmetric pattern, (pq|rs) either zero or a fixed symmetric pattern
IntegralSets == [h : {1}, g : {0, 1}]

pattern(p, q) == 1 + p + q + 3 * p * q

\* einsum('uj,vi,uv', C, C, Core): the core Hamiltonian over spatial MOs
core_mo(ints, p, q) == ints.h * (pattern(p, q) + (IF p = q THEN 2 ELSE 0))

\* mol.single_bar after the four quarter transformations: (pq|rs), spatial
single_bar(ints, p, q, r, s) == ints.g * pattern(p, q) * pattern(r, s)

delta(a, b) == IF a = b THEN 1 ELSE 0

\* mol.double_bar[p,q,r,s] = <pq||rs> over spin orbitals
double_bar(ints, p, q, r, s) ==
    LET value1 == single_bar(ints, p \div 2, r \div 2, q \div 2, s \div 2)
                    * delta(p % 2, r % 2) * delta(q % 2, s % 2)
        value2 == single_bar(ints, p \div 2, s \div 2, q \div 2, r \div 2)
                    * delta(p % 2, s % 2) * delta(q % 2, r % 2)
    IN  value1 - value2

\* mol.Hp = kron(core_mo, eye(2))
Hp(ints, p, q) == core_mo(ints, p \div 2, q \div 2) * delta(p % 2, q % 2)

\* ------------------------------------------------- excitation analyzer
\* the occupation the analyzer sees in Nint words of the array det; a word
\* past the end of the array reads as stray
OccupationSeen(det, Nint, stray) ==
    UNION {{WordBits * (k - 1) + b : b \in (IF k <= Len(det) THEN det[k] ELSE stray)} :
           k \in 1..Nint}

\* the orbitals of S in ascending order
SortNat(S) ==
    IF S = {} THEN << >>
    ELSE LET InS(o) == o \in S IN SelectSeq(range(Max(S) + 1), InS)

\* occupied orbitals of b strictly between orbitals x and y
crossings(b, x, y) ==
    Cardinality({o \in b : (IF x < y THEN x ELSE y) < o /\ o < (IF x < y THEN y ELSE x)})

RECURSIVE SumRange(_, _, _)
\* s[lo] + s[lo+1] + ... + s[hi], halving so the depth stays small
SumRange(s, lo, hi) ==
    IF lo > hi THEN 0
    ELSE IF lo = hi THEN s[lo]
    ELSE LET mid == (lo + hi) \div 2
         IN  SumRange(s, lo, mid) + SumRange(s, mid + 1, hi)

SumSeq(s) == SumRange(s, 1, Len(s))

\* mmd.slater.get_excitation on the two occupations
get_excitation(b1, b2) ==
    LET diff == (b1 \ b2) \cup (b2 \ b1)
        degree == Cardinality(diff) \div 2
        holes == SortNat(b1 \ b2)
        particles == SortNat(b2 \ b1)
        total == SumSeq([k \in 1..degree |-> crossings(b1, holes[k], particles[k])])
    IN  [degree |-> degree, holes |-> holes, particles |-> particles,
         phase |-> IF degree > 2 THEN 0 ELSE IF total % 2 = 0 THEN 1 ELSE -1]

\* mmd.slater.common_index: the orbitals occupied in both, ascending
common_index(b1, b2) == SortNat(b1 \cap b2)

\* ------------------------------------------------------ matrix element
\* a result of hamiltonian_matrix_element: the value, doubled, or numpy's
\* IndexError on an orbital index outside [0, norb)
Value(v) == [err |-> FALSE, val |-> v]

IndexError == [err |-> TRUE, val |-> 0]

\* the degree == 2 branch with the second hole and the first particle exchanged
element_degree2_interleaved(ints, x) ==
    2 * x.phase * double_bar(ints, x.holes[1], x.particles[1], x.holes[2], x.particles[2])

\* the degree == 2 branch: phase * <hole1 hole2||particle1 particle2>
element_degree2(ints, x) ==
    2 * x.phase * double_bar(ints, x.holes[1], x.holes[2], x.particles[1], x.particles[2])

\* the degree == 1 branch reading Hp[m,m] for Hp[m,p]
element_degree1_diag(ints, x, common) ==
    LET m == x.holes[1]
        p == x.particles[1]
        tmp == Hp(ints, m, m)
               + SumSeq([k \in 1..Len(common) |->
                           double_bar(ints, m, common[k], p, common[k])])
    IN  2 * x.phase * tmp

\* the degree == 1 branch summing double_bar[m, n, n, p]
element_degree1_exchanged(ints, x, common) ==
    LET m == x.holes[1]
        p == x.particles[1]
        tmp == Hp(ints, m, p)
               + SumSeq([k \in 1..Len(common) |->
                           double_bar(ints, m, common[k], common[k], p)])
    IN  2 * x.phase * tmp

\* the degree == 1 branch: phase * (Hp[m,p] + sum over common of <m n||p n>)
element_degree1(ints, x, common) ==
    LET m == x.holes[1]
        p == x.particles[1]
        tmp == Hp(ints, m, p)
               + SumSeq([k \in 1..Len(common) |->
                           double_bar(ints, m, common[k], p, common[k])])
    IN  2 * x.phase * tmp

\* the degree == 0 branch without the factor 0.5
element_degree0_nohalf(ints, x, common) ==
    LET tmp == SumSeq([k \in 1..Len(common) |->
                         2 * Hp(ints, common[k], common[k])
                         + SumSeq([l \in 1..Len(common) |->
                                     2 * double_bar(ints, common[k], common[l],
                                                    common[k], common[l])])])
    IN  x.phase * tmp

\* the degree == 0 branch: phase * sum over common of (Hp[m,m] + 0.5 * sum <m n||m n>)
element_degree0(ints, x, common) ==
    LET tmp == SumSeq([k \in 1..Len(common) |->
                         2 * Hp(ints, common[k], common[k])
                         + SumSeq([l \in 1..Len(common) |->
                                     double_bar(ints, common[k], common[l],
                                                common[k], common[l])])])
    IN  x.phase * tmp

\* the cells of Hp and double_bar the branch taken for x indexes
element_reads(x, common) ==
    IF x.degree > 2 THEN {}
    ELSE IF x.degree = 2 THEN
        {<<"double_bar", <<x.holes[1], x.holes[2], x.particles[1], x.particles[2]>>>>}
    ELSE IF x.degree = 1 THEN
        {<<"Hp", <<x.holes[1], x.particles[1]>>>>}
        \cup {<<"double_bar", <<x.holes[1], n, x.particles[1], n>>>> : n \in Range(common)}
    ELSE
        {<<"Hp", <<m, m>>>> : m \in Range(common)}
        \cup {<<"double_bar", <<m, n, m, n>>>> : m \in Range(common), n \in Range(common)}

\* PostSCF.hamiltonian_matrix_element on the occupations the analyzer sees
hamiltonian_matrix_element(nOrb, ints, b1, b2) ==
    LET x == get_excitation(b1, b2)
        common == common_index(b1, b2)
        inRange == \A r \in element_reads(x, common) : \A o \in Range(r[2]) : o < nOrb
    IN  IF x.degree > 2 THEN Value(0)
        ELSE IF ~inRange THEN IndexError
        ELSE IF x.degree = 2 THEN Value(element_degree2(ints, x))
        ELSE IF x.degree = 1 THEN Value(element_degree1(ints, x, common))
        ELSE Value(element_degree0(ints, x, common))

\* --------------------------------------------------------- eigensolver
\* H.shape[0]
rows(M) == Cardinality({c[1] : c \in DOMAIN M})

\* mmd.utils.davidson.davidson(M, k): what the solver may hand back.  A matrix
\* of n rows has n eigenvalues, so at most n of the k asked for exist; with
\* fewer than k the iteration may also end without converging.
davidson(M, k) ==
    LET n == rows(M)
        found == IF n < k THEN n ELSE k
    IN  {[converged |-> TRUE, E |-> [r \in 1..found |-> r]]}
        \cup (IF n < k THEN {[converged |-> FALSE, E |-> << >>]} ELSE {})

\* ------------------------------------------------------------- state
VARIABLES
    mol,        \* the molecule: nbasis, nelec, is_converged, its MO integrals
    attrs,      \* attributes PostSCF has written on mol
    norb,       \* mol.norb once written
    pc,         \* "start", "idle", "build", "built", "halt"
    exit,       \* the message or exception that ended the process
    method,     \* the CI routine in progress
    calls,      \* method calls made on the object
    num_dets,   \* the size of the space the routine computed
    det_list,   \* the determinant list handed to build_full_hamiltonian
    Nint,       \* words per determinant given to the analyzer
    H,          \* the matrix under assembly, doubled
    idx,        \* outer loop position
    jdx,        \* inner loop position
    evaluated,  \* the (idx, jdx) pairs hamiltonian_matrix_element was called on
    nevals,     \* number of calls of hamiltonian_matrix_element
    assigned,   \* the cells of H written
    nreads,     \* number of cells of Hp and double_bar indexed by the evaluations
    eig,        \* the last call of davidson: by whom, on how many rows, asking k, getting E
    energy      \* the energies written on mol: attribute |-> eigenvalue and shift

vars == <<mol, attrs, norb, pc, exit, method, calls, num_dets, det_list, Nint, H,
          idx, jdx, evaluated, nevals, assigned, nreads, eig, energy>>

results == <<eig, energy>>

locals == <<num_dets, det_list, Nint, H, idx, jdx, evaluated, nevals, assigned, nreads>>

\* small molecules, every occupation of them
SmallMolecules ==
    {[nbasis |-> b, nelec |-> n, is_converged |-> c, ints |-> i] :
       b \in 1..MaxBasis, n \in 0..(2 * MaxBasis), c \in BOOLEAN, i \in IntegralSets}

\* three more: six spin orbitals half filled (pairs of every degree up to 3),
\* a space over the ceiling, and 64 spin orbitals all occupied
LargeMolecules ==
    {[nbasis |-> 3, nelec |-> 3, is_converged |-> TRUE, ints |-> [h |-> 1, g |-> 1]],
     [nbasis |-> 13, nelec |-> 13, is_converged |-> TRUE, ints |-> [h |-> 1, g |-> 1]],
     [nbasis |-> 32, nelec |-> 64, is_converged |-> TRUE, ints |-> [h |-> 1, g |-> 0]]}

Molecules == {m \in SmallMolecules : m.nelec <= 2 * m.nbasis} \cup LargeMolecules

\* what a word read past the end of a determinant array may hold
StrayWords == {{}, {0}}

Init ==
    /\ mol \in Molecules
    /\ attrs = {}
    /\ norb = 0
    /\ pc = "start"
    /\ exit = ""
    /\ method = ""
    /\ calls = 0
    /\ num_dets = 0
    /\ det_list = << >>
    /\ Nint = 0
    /\ H = << >>
    /\ idx = 0
    /\ jdx = 0
    /\ evaluated = {}
    /\ nevals = 0
    /\ assigned = {}
    /\ nreads = 0
    /\ eig = [method |-> "", n |-> 0, k |-> 0, E |-> << >>]
    /\ energy = << >>

\* __init__ running ao2mo without looking at is_converged
ConstructUnchecked ==
    /\ pc = "start"
    /\ attrs' = attrs \cup {"single_bar", "norb", "double_bar", "Hp", "fs"}
    /\ norb' = mol.nbasis * 2
    /\ pc' = "idle"
    /\ UNCHANGED <<results, mol, exit, method, calls, locals>>

\* PostSCF.__init__ with ao2mo
Construct ==
    /\ pc = "start"
    /\ IF ~mol.is_converged
       THEN /\ pc' = "halt"
            /\ exit' = "SCF not converged, skipping Post-SCF"
            /\ UNCHANGED <<attrs, norb>>
       ELSE /\ attrs' = attrs \cup {"single_bar", "norb", "double_bar", "Hp", "fs"}
            /\ norb' = mol.nbasis * 2
            /\ pc' = "idle"
            /\ UNCHANGED exit
    /\ UNCHANGED <<results, mol, method, calls, locals>>

\* PostSCF.MP2
MP2 ==
    /\ pc = "idle"
    /\ calls < MaxCalls
    /\ attrs' = attrs \cup {"emp2"}
    /\ calls' = calls + 1
    /\ UNCHANGED <<results, mol, norb, pc, exit, method, locals>>

\* PostSCF.CIS
CIS ==
    /\ pc = "idle"
    /\ calls < MaxCalls
    /\ calls' = calls + 1
    /\ LET nOcc == mol.nelec
           nVir == norb - mol.nelec
           nOV == nOcc * nVir
       IN  IF nOV > Ceiling
           THEN /\ pc' = "halt"
                /\ exit' = "CIS too expensive. Quitting."
                /\ UNCHANGED attrs
           ELSE /\ attrs' = attrs \cup {"cis_omega", "cis_oscil"}
                /\ UNCHANGED <<pc, exit>>
    /\ UNCHANGED <<results, mol, norb, method, locals>>

\* PostSCF.TDHF
TDHF ==
    /\ pc = "idle"
    /\ calls < MaxCalls
    /\ attrs' = attrs \cup {"tdhf_omega"}
    /\ calls' = calls + 1
    /\ UNCHANGED <<results, mol, norb, pc, exit, method, locals>>

\* entry of build_full_hamiltonian: Nint, the zero matrix, the loop start
EnterBuild(dets) ==
    /\ det_list' = dets
    /\ Nint' = (norb \div WordBits) + 1
    /\ H' = [c \in (0..(Len(dets) - 1)) \X (0..(Len(dets) - 1)) |-> 0]
    /\ idx' = 0
    /\ jdx' = 0
    /\ evaluated' = {}
    /\ nevals' = 0
    /\ assigned' = {}
    /\ nreads' = 0
    /\ pc' = "build"

\* int(2**nEle - 1): the lowest nEle orbitals filled
reference_determinant(nEle) == 0..(nEle - 1)

\* PostSCF.CISD up to the call of build_full_hamiltonian
CISD ==
    /\ pc = "idle"
    /\ calls < MaxCalls
    /\ calls' = calls + 1
    /\ method' = "CISD"
    /\ LET nEle == mol.nelec
           size == Cardinality(add_particles(norb, residues(norb, reference_determinant(nEle))))
       IN  IF size > Ceiling
           THEN /\ num_dets' = size
                /\ pc' = "halt"
                /\ exit' = "CI too expensive. Quitting."
                /\ UNCHANGED <<det_list, Nint, H, idx, jdx, evaluated, nevals, assigned,
                               nreads>>
           ELSE \E dets \in single_and_double_determinants(norb, reference_determinant(nEle)) :
                    /\ num_dets' = Len(dets)
                    /\ EnterBuild(dets)
                    /\ UNCHANGED exit
    /\ UNCHANGED <<results, mol, attrs, norb>>

\* PostSCF.FCI up to the call of build_full_hamiltonian
FCI ==
    /\ pc = "idle"
    /\ calls < MaxCalls
    /\ calls' = calls + 1
    /\ method' = "FCI"
    /\ LET nEle == mol.nelec
           nOrb == norb
       IN  IF comb(nOrb, nEle) > Ceiling
           THEN /\ num_dets' = comb(nOrb, nEle)
                /\ pc' = "halt"
                /\ exit' = "FCI too expensive. Quitting."
                /\ UNCHANGED <<det_list, Nint, H, idx, jdx, evaluated, nevals, assigned,
                               nreads>>
           ELSE LET occlists == combinations(0, nOrb, nEle)
                IN  IF \E k \in 1..Len(occlists) : occlists[k] = << >>
                    THEN \* max(()) in tuple2bitstring
                         /\ pc' = "halt"
                         /\ exit' = "ValueError"
                         /\ UNCHANGED locals
                    ELSE /\ num_dets' = Len(occlists)
                         /\ EnterBuild([k \in 1..Len(occlists) |->
                                          <<uint(tuple2bitstring(occlists[k]))>>])
                         /\ UNCHANGED exit
    /\ UNCHANGED <<results, mol, attrs, norb>>

\* the store without the mirrored cell
StoreValueNoMirror(M, i, j, value) == [M EXCEPT ![<<i, j>>] = value]

\* the store with the mirrored value put on the diagonal cell of jdx
StoreValueOnDiagonal(M, i, j, value) == [M EXCEPT ![<<i, j>>] = value, ![<<j, j>>] = value]

\* H[idx,jdx] = value; H[jdx,idx] = value
StoreValue(M, i, j, value) == [M EXCEPT ![<<i, j>>] = value, ![<<j, i>>] = value]

\* the cells of M an assignment of the pair (i, j) writes
WrittenCells(M, i, j) ==
    {c \in DOMAIN M : StoreValue([d \in DOMAIN M |-> 0], i, j, 1)[c] = 1}

\* the body of the inner loop for the pair (i, j): the element is computed
\* from det_list[i], det_list[j] and the integrals, then stored
EvaluatePair(i, j) ==
    /\ LET det1 == det_list[i + 1]
           det2 == det_list[j + 1]
       IN  \E s1, s2 \in StrayWords :
             /\ (Nint <= Len(det1) \/ i = j) => s1 = s2
             /\ Nint <= Len(det1) => s1 = {}
             /\ LET b1 == OccupationSeen(det1, Nint, s1)
                    b2 == OccupationSeen(det2, Nint, s2)
                    value == hamiltonian_matrix_element(norb, mol.ints, b1, b2)
                IN  IF value.err
                    THEN /\ pc' = "halt"
                         /\ exit' = "IndexError"
                         /\ UNCHANGED <<H, assigned, nreads>>
                    ELSE /\ H' = StoreValue(H, i, j, value.val)
                         /\ assigned' = assigned \cup WrittenCells(H, i, j)
                         /\ nreads' = nreads + Cardinality(element_reads(
                                          get_excitation(b1, b2), common_index(b1, b2)))
                         /\ UNCHANGED <<pc, exit>>
    /\ evaluated' = evaluated \cup {<<i, j>>}
    /\ nevals' = nevals + 1
    /\ UNCHANGED <<results, mol, attrs, norb, method, calls, num_dets, det_list, Nint>>

\* one pass of the inner loop of build_full_hamiltonian
HamiltonianStep ==
    /\ pc = "build"
    /\ idx < Len(det_list)
    /\ EvaluatePair(idx, jdx)
    /\ IF pc' = "halt"
       THEN UNCHANGED <<idx, jdx>>
       ELSE IF jdx = idx
            THEN idx' = idx + 1 /\ jdx' = 0
            ELSE idx' = idx /\ jdx' = jdx + 1

\* the analyzer's read of a word past the end of a determinant array faults
HamiltonianFault ==
    /\ pc = "build"
    /\ idx < Len(det_list)
    /\ Nint > Len(det_list[idx + 1])
    /\ pc' = "halt"
    /\ exit' = "IndexError"
    /\ evaluated' = evaluated \cup {<<idx, jdx>>}
    /\ nevals' = nevals + 1
    /\ UNCHANGED <<results, mol, attrs, norb, method, calls, num_dets, det_list, Nint, H,
                   idx, jdx, assigned, nreads>>

\* build_full_hamiltonian returns H
BuildReturn ==
    /\ pc = "build"
    /\ idx = Len(det_list)
    /\ pc' = "built"
    /\ UNCHANGED <<results, mol, attrs, norb, exit, method, calls, locals>>

\* the frame of the routine is gone: its locals no longer exist
DropLocals ==
    /\ num_dets' = 0
    /\ det_list' = << >>
    /\ Nint' = 0
    /\ H' = << >>
    /\ idx' = 0
    /\ jdx' = 0
    /\ evaluated' = {}
    /\ nevals' = 0
    /\ assigned' = {}
    /\ nreads' = 0

\* E,C = davidson(H,3); self.mol.ecisd (efci) = E[0] + self.mol.nuc_energy;
\* the routine returns
Diagonalize ==
    /\ pc = "built"
    /\ method \in {"CISD", "FCI"}
    /\ \E out \in davidson(H, NumRoots) :
         /\ eig' = [method |-> method, n |-> rows(H), k |-> NumRoots, E |-> out.E]
         /\ IF ~out.converged
            THEN /\ pc' = "halt"
                 /\ exit' = "EigensolverNonConvergence"
                 /\ UNCHANGED <<attrs, energy, method, locals>>
            ELSE IF out.E = << >>
            THEN \* E[0] of an empty array
                 /\ pc' = "halt"
                 /\ exit' = "IndexError"
                 /\ UNCHANGED <<attrs, energy, method, locals>>
            ELSE LET attr == IF method = "CISD" THEN "ecisd" ELSE "efci"
                 IN  /\ attrs' = attrs \cup {attr}
                     /\ energy' = [a \in DOMAIN energy \cup {attr} |->
                                     IF a = attr
                                     THEN [eigenvalue |-> out.E[1], plus |-> "nuc_energy"]
                                     ELSE energy[a]]
                     /\ pc' = "idle"
                     /\ method' = ""
                     /\ DropLocals
                     /\ UNCHANGED exit
    /\ UNCHANGED <<mol, norb, calls>>

\* the determinant lists a caller hands to build_full_hamiltonian itself:
\* one or two determinants of nelec electrons over the norb spin orbitals
CallerLists ==
    LET occlists == combinations(0, norb, mol.nelec)
        D == {<<Range(occlists[k])>> : k \in 1..Len(occlists)}
    IN  {<<d>> : d \in D} \cup {<<d, e>> : d \in D, e \in D}

\* PostSCF.build_full_hamiltonian called by the user of the object
BuildCall ==
    /\ pc = "idle"
    /\ calls < MaxCalls
    /\ comb(norb, mol.nelec) <= Ceiling
    /\ calls' = calls + 1
    /\ method' = "build"
    /\ \E dets \in CallerLists :
         /\ num_dets' = Len(dets)
         /\ EnterBuild(dets)
    /\ UNCHANGED <<results, mol, attrs, norb, exit>>

\* the user's call of build_full_hamiltonian is over
BuildDone ==
    /\ pc = "built"
    /\ method = "build"
    /\ pc' = "idle"
    /\ method' = ""
    /\ DropLocals
    /\ UNCHANGED <<results, mol, attrs, norb, exit, calls>>

Next ==
    \/ Construct
    \/ MP2
    \/ CIS
    \/ TDHF
    \/ CISD
    \/ FCI
    \/ BuildCall
    \/ HamiltonianStep
    \/ HamiltonianFault
    \/ BuildReturn
    \/ Diagonalize
    \/ BuildDone

Spec == Init /\ [][Next]_vars

\* ------------------------------------------------ assembly in any order
\* The pairs of the double loop handed out in any order, one evaluation at a
\* time, as workers sharing det_list, the integrals and H would take them.
\* Lists longer than MaxShardLen keep the order of the loop.

\* the (idx, jdx) the double loop visits for a list of n determinants
LoopPairs(n) == {c \in (0..(n - 1)) \X (0..(n - 1)) : c[2] <= c[1]}

Sharded == Len(det_list) <= MaxShardLen

\* the loop body on any pair not evaluated yet
HamiltonianStepAny ==
    /\ pc = "build"
    /\ Sharded
    /\ \E c \in LoopPairs(Len(det_list)) \ evaluated : EvaluatePair(c[1], c[2])
    /\ UNCHANGED <<idx, jdx>>

\* the analyzer's fault on any pair not evaluated yet
HamiltonianFaultAny ==
    /\ pc = "build"
    /\ Sharded
    /\ \E c \in LoopPairs(Len(det_list)) \ evaluated :
         /\ Nint > Len(det_list[c[1] + 1])
         /\ evaluated' = evaluated \cup {c}
    /\ pc' = "halt"
    /\ exit' = "IndexError"
    /\ nevals' = nevals + 1
    /\ UNCHANGED <<results, mol, attrs, norb, method, calls, num_dets, det_list, Nint, H,
                   idx, jdx, assigned, nreads>>

\* every pair is done: H is returned
BuildReturnAny ==
    /\ pc = "build"
    /\ Sharded
    /\ evaluated = LoopPairs(Len(det_list))
    /\ pc' = "built"
    /\ UNCHANGED <<results, mol, attrs, norb, exit, method, calls, locals>>

HamiltonianStepLoop == ~Sharded /\ HamiltonianStep

BuildReturnLoop == ~Sharded /\ BuildReturn

NextAnyOrder ==
    \/ Construct
    \/ MP2
    \/ CIS
    \/ TDHF
    \/ CISD
    \/ FCI
    \/ BuildCall
    \/ HamiltonianStepAny
    \/ HamiltonianFaultAny
    \/ BuildReturnAny
    \/ HamiltonianStepLoop
    \/ BuildReturnLoop
    \/ Diagonalize
    \/ BuildDone

SpecAnyOrder == Init /\ [][NextAnyOrder]_vars

\* ------------------------------------------------------------- claims
\* the Python int held by the k-th determinant of the list
DetBits(k) == det_list[k][1]

\* assembly was entered: the loop runs, has returned, or the process died
\* inside an evaluation or in the diagonalization after it
InAssembly ==
    \/ pc \in {"build", "built"}
    \/ (pc = "halt" /\ exit \in {"IndexError", "EigensolverNonConvergence"})

NoDuplicates(l) == \A i, j \in 1..Len(l) : l[i] = l[j] => i = j

SumFn(f) ==
    LET order == SortNat(DOMAIN f)
    IN  SumSeq([k \in 1..Len(order) |-> f[order[k]]])

\* C1: whenever C(M,N) <= 5000, the list FCI builds has exactly C(M,N)
\* determinants, pairwise distinct, the k-th with bit i set iff orbital i is
\* in the k-th combination of N of the M orbitals.
C1_FCIListsEveryCombination ==
    (method = "FCI" /\ comb(norb, mol.nelec) <= Ceiling) =>
        /\ exit # "ValueError"
        /\ Len(det_list) = comb(norb, mol.nelec)
        /\ NoDuplicates(det_list)
        /\ LET occlists == combinations(0, norb, mol.nelec)
           IN  \A k \in 1..Len(det_list) :
                 /\ k <= Len(occlists)
                 /\ DetBits(k) = Range(occlists[k])

\* the reference, every single and every double excitation of it
RefSinglesDoubles(nOrb, nEle) ==
    LET ref == 0..(nEle - 1)
        vir == nEle..(nOrb - 1)
    IN  {ref}
        \cup {(ref \ {a}) \cup {p} : a \in ref, p \in vir}
        \cup {(ref \ {t[1], t[2]}) \cup {t[3], t[4]} :
                t \in {u \in ref \X ref \X vir \X vir : u[1] < u[2] /\ u[3] < u[4]}}

\* C2: the list single_and_double_determinants returns for the reference
\* 2^N - 1 holds exactly the reference, its single and its double excitations.
C2_CISDListIsRefSinglesDoubles ==
    (method = "CISD" /\ InAssembly) =>
        {DetBits(k) : k \in 1..Len(det_list)} = RefSinglesDoubles(norb, mol.nelec)

CISDBound(nOrb, nEle) ==
    comb(nEle, 2) * comb(nOrb - nEle, 2) + nEle * (nOrb - nEle) + 1

\* C3: the list the CISD generator returns has no two equal entries and at
\* most C(N,2)*C(M-N,2) + N*(M-N) + 1 of them.
C3_CISDListBounded ==
    method = "CISD" =>
        /\ num_dets <= CISDBound(norb, mol.nelec)
        /\ InAssembly =>
             /\ Len(det_list) = num_dets
             /\ NoDuplicates(det_list)

C3_Witness ==
    /\ method = "CISD"
    /\ pc = "built"
    /\ Len(det_list) >= 6
    /\ Len(det_list) = CISDBound(norb, mol.nelec)

TooExpensive == {"CI too expensive. Quitting.", "FCI too expensive. Quitting."}

\* C4: in CISD and FCI a space larger than 5000 aborts with the too-expensive
\* error before any matrix element is evaluated and before the eigensolver;
\* a space of at most 5000 proceeds to assembly with its full list.
C4_CeilingFailsFastElseAssembles ==
    method \in {"CISD", "FCI"} =>
        LET size == IF method = "FCI" THEN comb(norb, mol.nelec) ELSE num_dets
        IN  /\ size > Ceiling =>
                 /\ pc = "halt"
                 /\ exit \in TooExpensive
                 /\ nevals = 0
                 /\ det_list = << >>
            /\ size <= Ceiling =>
                 /\ InAssembly
                 /\ Len(det_list) = size

\* C5: with an unconverged reference the construction fails before ao2mo:
\* no MO attribute is written and no method ever runs on the object.
C5_UnconvergedNeverStarts ==
    ~mol.is_converged =>
        /\ pc \in {"start", "halt"}
        /\ pc = "halt" => exit = "SCF not converged, skipping Post-SCF"
        /\ attrs = {}
        /\ calls = 0
        /\ method = ""
        /\ nevals = 0

C5_Witness == ~mol.is_converged /\ pc = "halt"

\* the element the code computes for the stored determinants i and j (0-based)
ElementOf(i, j) ==
    hamiltonian_matrix_element(norb, mol.ints,
        OccupationSeen(det_list[i + 1], Nint, {}), OccupationSeen(det_list[j + 1], Nint, {}))

\* C6: build_full_hamiltonian returns an n x n symmetric matrix whose cell
\* (i,j), j <= i, holds the element of (det_i, det_j); the element function
\* is called exactly on the n(n+1)/2 pairs j <= i and every cell is assigned.
C6_BuildSymmetricLowerEvaluated ==
    pc = "built" =>
        LET n == Len(det_list)
            I == 0..(n - 1)
        IN  /\ DOMAIN H = I \X I
            /\ \A i, j \in I : H[<<i, j>>] = H[<<j, i>>]
            /\ \A i, j \in I : j <= i => H[<<i, j>>] = ElementOf(i, j).val
            /\ evaluated = {c \in I \X I : c[2] <= c[1]}
            /\ 2 * nevals = n * (n + 1)
            /\ assigned = I \X I

C6_Witness ==
    /\ pc = "built"
    /\ Len(det_list) >= 3
    /\ \E c \in DOMAIN H : c[1] < c[2] /\ H[c] # 0

\* the degree-0 rule written directly, doubled:
\* sum of h[m,m] over occupied m plus half the sum of <m n||m n> over ordered pairs
Degree0Formula(ints, d) ==
    SumFn([m \in d |-> 2 * Hp(ints, m, m)
                        + SumFn([n \in d |-> double_bar(ints, m, n, m, n)])])

\* C7: for a one-determinant list the 1 x 1 matrix holds the degree-0 formula
\* of that determinant, with no further sign or factor.
C7_SingleDeterminantIsDegree0 ==
    (pc = "built" /\ Len(det_list) = 1) =>
        H[<<0, 0>>] = Degree0Formula(mol.ints, DetBits(1))

C7_Witness ==
    /\ pc = "built"
    /\ Len(det_list) = 1
    /\ Cardinality(DetBits(1)) = 2
    /\ DetBits(1) # {0, 1}
    /\ mol.ints = [h |-> 1, g |-> 1]
    /\ H[<<0, 0>>] > 0

\* C8: every determinant CISD or FCI hands to build_full_hamiltonian has
\* exactly N bits set, all at indices in [0, M).
C8_ListKeepsElectronCount ==
    (method \in {"CISD", "FCI"} /\ InAssembly) =>
        \A k \in 1..Len(det_list) :
            /\ Cardinality(DetBits(k)) = mol.nelec
            /\ DetBits(k) \subseteq 0..(norb - 1)

C8_Witness ==
    /\ method = "CISD"
    /\ pc = "built"
    /\ Len(det_list) >= 6
    /\ mol.nelec < norb

\* C9: for every evaluated pair of excitation degree 1 or 2 the phase is the
\* same in both argument orders, and the value mirrored into H[j,i] is the
\* element of the swapped pair, in whatever order the list holds the two.
C9_MirrorIsSwappedElement ==
    (pc = "built" /\ Nint = 1) =>
        \A c \in evaluated :
            LET b1 == DetBits(c[1] + 1)
                b2 == DetBits(c[2] + 1)
                x == get_excitation(b1, b2)
                y == get_excitation(b2, b1)
            IN  x.degree \in {1, 2} =>
                  /\ x.phase = y.phase
                  /\ H[<<c[2], c[1]>>] = hamiltonian_matrix_element(norb, mol.ints, b2, b1).val

C9_Witness ==
    /\ pc = "built"
    /\ \E c \in evaluated :
         LET x == get_excitation(DetBits(c[1] + 1), DetBits(c[2] + 1))
         IN  /\ x.degree = 2
             /\ x.phase = -1
             /\ H[<<c[2], c[1]>>] # 0

\* C10: every determinant CISD or FCI passes to the evaluator has at least
\* ceil(M/64) words, and Nint = floor(M/64) + 1 is at most its word count.
C10_WordsCoverNint ==
    (method \in {"CISD", "FCI"} /\ InAssembly) =>
        \A k \in 1..Len(det_list) :
            /\ Len(det_list[k]) * WordBits >= norb
            /\ Nint <= Len(det_list[k])

\* C11: every CISD or FCI run that reaches the diagonalization gets back
\* exactly the 3 eigenpairs it asked for, in ascending order, whatever the
\* size of the determinant space (also below 3), and the energy written on
\* mol is the lowest eigenvalue plus the nuclear repulsion energy.
C11_SolverReturnsRequestedRoots ==
    eig.k > 0 =>
        /\ eig.k = NumRoots
        /\ Len(eig.E) = eig.k
        /\ \A r, s \in 1..Len(eig.E) : r < s => eig.E[r] < eig.E[s]
        /\ LET attr == IF eig.method = "CISD" THEN "ecisd" ELSE "efci"
           IN  /\ attr \in DOMAIN energy
               /\ energy[attr] = [eigenvalue |-> 1, plus |-> "nuc_energy"]

\* C12: for every evaluated pair of excitation degree 1, with hole m and
\* particle p, the element is phase * (h[m,p] + sum of <m n||p n>), n running
\* once over each orbital occupied in both determinants, never m or p.
C12_Degree1SumsCommonOnce ==
    (pc = "built" /\ Nint = 1) =>
        \A c \in evaluated :
            LET b1 == DetBits(c[1] + 1)
                b2 == DetBits(c[2] + 1)
                x == get_excitation(b1, b2)
                m == CHOOSE o \in b1 \ b2 : TRUE
                p == CHOOSE o \in b2 \ b1 : TRUE
                both == b1 \cap b2
            IN  x.degree = 1 =>
                  /\ b1 \ b2 = {m}
                  /\ b2 \ b1 = {p}
                  /\ m \notin both /\ p \notin both
                  /\ Range(common_index(b1, b2)) = both
                  /\ Len(common_index(b1, b2)) = Cardinality(both)
                  /\ H[c] = 2 * x.phase
                              * (Hp(mol.ints, m, p)
                                 + SumFn([n \in both |-> double_bar(mol.ints, m, n, p, n)]))

C12_Witness ==
    /\ pc = "built"
    /\ Nint = 1
    /\ \E c \in evaluated :
         LET b1 == DetBits(c[1] + 1)
             b2 == DetBits(c[2] + 1)
             x == get_excitation(b1, b2)
         IN  /\ x.degree = 1
             /\ x.phase = -1
             /\ Cardinality(b1 \cap b2) >= 2
             /\ \E n \in b1 \cap b2 :
                  double_bar(mol.ints, x.holes[1], n, x.particles[1], n) # 0
             /\ H[c] # 0

Min(S) == CHOOSE x \in S : \A y \in S : x <= y

\* popcount(det1 ^ det2) / 2
DegreeOf(b1, b2) == Cardinality((b1 \ b2) \cup (b2 \ b1)) \div 2

\* the number of cells of Hp and double_bar the Slater-Condon rule of the
\* pair's degree needs: none above degree 2
ReadsNeeded(b1, b2) ==
    LET both == Cardinality(b1 \cap b2)
    IN  IF DegreeOf(b1, b2) > 2 THEN 0
        ELSE IF DegreeOf(b1, b2) = 2 THEN 1
        ELSE IF DegreeOf(b1, b2) = 1 THEN 1 + both
        ELSE both + both * both

\* C13: for every evaluated pair of excitation degree 2, with holes m < n and
\* particles p < q, the element is phase * <m n||p q>, holes in the first two
\* indices and particles in the last two; for every pair of degree above 2 it
\* is 0 and no cell of h or of the two-electron tensor is read for it.
C13_Degree2OrderedAbove2Zero ==
    (pc = "built" /\ Nint = 1) =>
        /\ \A c \in evaluated :
              LET b1 == DetBits(c[1] + 1)
                  b2 == DetBits(c[2] + 1)
                  x == get_excitation(b1, b2)
              IN  /\ DegreeOf(b1, b2) = 2 =>
                        LET m == Min(b1 \ b2)
                            n == Max(b1 \ b2)
                            p == Min(b2 \ b1)
                            q == Max(b2 \ b1)
                        IN  /\ m < n /\ p < q
                            /\ H[c] = 2 * x.phase * double_bar(mol.ints, m, n, p, q)
                  /\ DegreeOf(b1, b2) > 2 => H[c] = 0
        /\ nreads = SumFn([i \in 0..(Len(det_list) - 1) |->
                             SumFn([j \in 0..i |->
                                      ReadsNeeded(DetBits(i + 1), DetBits(j + 1))])])

C13_Witness ==
    /\ pc = "built"
    /\ Nint = 1
    /\ nreads > 0
    /\ \E c \in evaluated : DegreeOf(DetBits(c[1] + 1), DetBits(c[2] + 1)) = 3
    /\ \E c \in evaluated :
         /\ DegreeOf(DetBits(c[1] + 1), DetBits(c[2] + 1)) = 2
         /\ get_excitation(DetBits(c[1] + 1), DetBits(c[2] + 1)).phase = -1
         /\ H[c] # 0

\* the matrix the sequential double loop leaves, run from the pair (i, j) on
RECURSIVE SequentialLoop(_, _, _)
SequentialLoop(M, i, j) ==
    IF i >= Len(det_list) THEN M
    ELSE LET M1 == StoreValue(M, i, j, ElementOf(i, j).val)
         IN  IF j = i THEN SequentialLoop(M1, i + 1, 0) ELSE SequentialLoop(M1, i, j + 1)

\* the pair (i, j), j <= i, that computes the cell
Owner(cell) == IF cell[2] <= cell[1] THEN cell ELSE <<cell[2], cell[1]>>

\* for the lists whose pairs are taken in any order: the cells written so far
\* are exactly the cells of the pairs evaluated, each pair writing its own two
\* and no other; the rest of H is still zero; the matrix returned is the one
\* the sequential loop builds
CellsOwnedByPairs ==
    (pc \in {"build", "built"} /\ Sharded) =>
        /\ \A c \in evaluated : WrittenCells(H, c[1], c[2]) = {c, <<c[2], c[1]>>}
        /\ assigned = {cell \in DOMAIN H : Owner(cell) \in evaluated}
        /\ \A cell \in DOMAIN H \ assigned : H[cell] = 0
        /\ pc = "built" => H = SequentialLoop([cell \in DOMAIN H |-> 0], 0, 0)

\* a step of the assembly leaves the determinant list and the integrals alone
InputsReadOnly ==
    pc = "build" => (det_list' = det_list /\ mol' = mol /\ norb' = norb /\ Nint' = Nint)

\* C14: during build_full_hamiltonian the determinant list, h and the
\* two-electron tensor are never modified, and every cell of H is written
\* only by the one pair (i,j), j <= i, that computes it (cells H[i,j] and
\* H[j,i]); so whatever the order in which the pairs are evaluated, the
\* matrix returned is the matrix of the sequential loop.
C14_AnyOrderSameMatrix == [](CellsOwnedByPairs) /\ [][InputsReadOnly]_vars

\* two determinants taken out of loop order: the pairs (1,0) and (1,1) are
\* evaluated and stored, the pair (0,0) is still to come
C14_Witness ==
    /\ pc = "build"
    /\ Len(det_list) = 2
    /\ evaluated = {<<1, 0>>, <<1, 1>>}
    /\ H[<<0, 1>>] # 0
    /\ H[<<1, 1>>] # H[<<0, 1>>]

====
